---------------------------- MODULE Spec2Model ----------------------------
(***************************************************************************)
(* A model of libethereum/Client.cpp: the VersionChecker, the              *)
(* BasicGasPricer and the Client work loop (doWork) with the API calls     *)
(* that run beside it.                                                     *)
(*                                                                         *)
(* The C++ `unsigned` arithmetic of BasicGasPricer::update is modelled on  *)
(* the naturals: the sampled gas values are far below 2^32 / 8, so no      *)
(* product total * q wraps.                                                *)
(***************************************************************************)
EXTENDS Integers, Sequences, FiniteSets, TLC

VARIABLES
    \* ---- VersionChecker -------------------------------------------------
    vc_file,        \* contents of <dbPath>/status
    m_action,       \* VersionChecker::m_action, "None" before construction
    vc_pc,          \* "init" -> "checked" -> "ok"
    \* ---- BasicGasPricer -------------------------------------------------
    gp_chain,       \* the chain walked by update, head first
    gp_c,           \* update's c: blocks visited so far
    gp_dist,        \* update's dist: gas price -> gas used
    gp_total,       \* update's total
    m_octiles,      \* BasicGasPricer::m_octiles, [0..8 -> price]
    gp_pc,          \* "sampling" -> "done"
    \* ---- Client ---------------------------------------------------------
    m_bc,           \* the chain store: [known, head]
    m_bq,           \* the block queue, oldest first
    m_tq,           \* the transaction queue: the set of pooled transactions
    m_stateDB,      \* the state DB handle: the blocks whose state it holds
    m_preMine,      \* [head, address, bal]
    m_postMine,     \* [head, address, bal, pending]
    m_filters,      \* installed filter id -> accumulated changes
    m_watches,      \* watch id -> [id, changes, lastPoll]
    m_localMiners,  \* miner index -> [status, work]
    m_remoteMiner,  \* [status, work]
    m_lastGarbageCollection,
    now,            \* chrono::system_clock::now(), in seconds
    host,           \* the P2P host: which notes it was signalled
    pc,             \* thread -> its position in doWork
    loc,            \* thread -> the locals of its doWork pass
    callst,         \* the thread inside Client::call: its position and temp
    hist,           \* history of the run, read by the properties only
    \* ---- Client, its locks -----------------------------------------------
    lk_run,         \* thread -> the operation it is in: [name, prog, pc]
    lk_held         \* thread -> the locks it holds, in the order it took them

vcVars == <<vc_file, m_action, vc_pc>>
gpVars == <<gp_chain, gp_c, gp_dist, gp_total, m_octiles, gp_pc>>
chainVars == <<m_bc, m_bq, m_tq, m_stateDB, m_preMine, m_postMine>>
watchVars == <<m_filters, m_watches>>
minerVars == <<m_localMiners, m_remoteMiner>>
clockVars == <<m_lastGarbageCollection, now>>
dataVars == <<chainVars, watchVars, minerVars, clockVars, host, pc, loc, callst, hist>>
lockVars == <<lk_run, lk_held>>
clientVars == <<dataVars, lockVars>>

-----------------------------------------------------------------------------
(* Small helpers                                                           *)

RECURSIVE SetSum(_, _)
SetSum(f, S) ==
    IF S = {} THEN 0
    ELSE LET x == CHOOSE y \in S : TRUE IN f[x] + SetSum(f, S \ {x})

SetMin(S) == CHOOSE x \in S : \A y \in S : x <= y
SetMax(S) == CHOOSE x \in S : \A y \in S : x >= y

\* All sequences over S of length at most n.
SeqsUpTo(S, n) == UNION {[1..k -> S] : k \in 0..n}

-----------------------------------------------------------------------------
(* VersionChecker                                                          *)

\* Largest version number a status file of the model holds.
MaxVersion == 2
\* Longest status list of the model.
MaxStatusLen == 3

\* The compiled-in constants the constructor compares with.
c_protocolVersion == 1
c_minorProtocolVersion == 1
c_databaseVersion == 1

\* The items of a status list: a version number, or -1 for an RLP item that is
\* not an unsigned integer (a nested list, a byte string with leading zeroes,
\* an integer wider than unsigned).
StatusItems == (-1)..MaxVersion
\* A status file: absent (contents() gives no bytes), or an RLP list.
StatusFiles == [exists : {FALSE}, items : {<<>>}]
               \cup [exists : {TRUE}, items : SeqsUpTo(StatusItems, MaxStatusLen)]

\* (unsigned)status[i]: RLP::operator[] gives a null RLP past the end of the
\* list or on something that is no list; the strict integer conversion then
\* throws. A negative result stands for the exception.
RlpUnsigned(status, i) ==
    IF ~status.exists THEN -1
    ELSE IF i + 1 > Len(status.items) THEN -1
    ELSE status.items[i + 1]

Throws(x) == x < 0

\* Not the code: the action if the database version were not compared.
VersionCheckerActionNoDb(status) ==
    LET protocolVersion == RlpUnsigned(status, 0)
        minorProtocolVersion == RlpUnsigned(status, 1)
        databaseVersion == RlpUnsigned(status, 2)
    IN  IF Throws(protocolVersion) \/ Throws(minorProtocolVersion)
           \/ Throws(databaseVersion)
        THEN "Kill"
        ELSE IF protocolVersion # c_protocolVersion THEN "Kill"
        ELSE IF minorProtocolVersion # c_minorProtocolVersion THEN "Verify"
        ELSE "Trust"

\* The try block of the constructor: the three conversions, then the
\* nested conditional; any exception ends in the catch (...) clause.
VersionCheckerAction(status) ==
    LET protocolVersion == RlpUnsigned(status, 0)
        minorProtocolVersion == RlpUnsigned(status, 1)
        databaseVersion == RlpUnsigned(status, 2)
    IN  IF Throws(protocolVersion) \/ Throws(minorProtocolVersion)
           \/ Throws(databaseVersion)
        THEN "Kill"
        ELSE IF protocolVersion # c_protocolVersion
                \/ databaseVersion # c_databaseVersion THEN "Kill"
        ELSE IF minorProtocolVersion # c_minorProtocolVersion THEN "Verify"
        ELSE "Trust"

VCInit ==
    /\ vc_file \in StatusFiles
    /\ m_action = "None"
    /\ vc_pc = "init"

VCIdle ==
    /\ vc_file = [exists |-> FALSE, items |-> <<>>]
    /\ m_action = "None"
    /\ vc_pc = "off"

VersionCheckerCtor ==
    /\ vc_pc = "init"
    /\ m_action' = VersionCheckerAction(vc_file)
    /\ vc_pc' = "checked"
    /\ UNCHANGED vc_file

\* rlpList(c_protocolVersion, c_minorProtocolVersion, c_databaseVersion)
CurrentStatus ==
    [exists |-> TRUE,
     items |-> <<c_protocolVersion, c_minorProtocolVersion, c_databaseVersion>>]

SetOk ==
    /\ vc_pc = "checked"
    /\ vc_file' = IF m_action # "Trust" THEN CurrentStatus ELSE vc_file
    /\ vc_pc' = "ok"
    /\ UNCHANGED m_action

\* The next start of the program reads the status file setOk left.
Restart ==
    /\ vc_pc = "ok"
    /\ vc_pc' = "init"
    /\ m_action' = "None"
    /\ UNCHANGED vc_file

-----------------------------------------------------------------------------
(* BasicGasPricer                                                          *)

\* Bounds of the sampled chains.
MaxChain == 2
MaxBlockTxs == 2
MaxGasPrice == 3
MaxGasUsed == 2
\* while (c < 1000 && p)
SampleWindow == 1000

\* A transaction of a sampled block with its receipt's gasUsed.
GpTxs == [gasPrice : 1..MaxGasPrice, gasUsed : 1..MaxGasUsed]
GpBlocks == SeqsUpTo(GpTxs, MaxBlockTxs)
GpChains == SeqsUpTo(GpBlocks, MaxChain)

\* std::array<u256, 9> m_octiles: nine default-constructed u256.
NoOctiles == [q \in 0..8 |-> 0]

\* dist[price] += gasUsed for every transaction of the block, in order.
RECURSIVE AddBlock(_, _)
AddBlock(dist, txs) ==
    IF txs = <<>> THEN dist
    ELSE LET tx == Head(txs)
             old == IF tx.gasPrice \in DOMAIN dist THEN dist[tx.gasPrice] ELSE 0
             new == [p \in (DOMAIN dist) \cup {tx.gasPrice} |->
                        IF p = tx.gasPrice THEN old + tx.gasUsed ELSE dist[p]]
         IN  AddBlock(new, Tail(txs))

RECURSIVE BlockGas(_)
BlockGas(txs) ==
    IF txs = <<>> THEN 0 ELSE Head(txs).gasUsed + BlockGas(Tail(txs))

\* for (; t <= total * q / 8 && t + i.second > total * q / 8; ++q)
\*     m_octiles[q] = i.first;
\* for the entry (price, gas) of dist; gives <<q, octiles>> at the loop's end.
RECURSIVE InnerLoop(_, _, _, _, _, _)
InnerLoop(t, total, q, price, gas, oct) ==
    IF t <= (total * q) \div 8 /\ t + gas > (total * q) \div 8
    THEN InnerLoop(t, total, q + 1, price, gas, [oct EXCEPT ![q] = price])
    ELSE <<q, oct>>

\* for (auto const& i: dist) { inner loop; if (q > 7) break; }  over the
\* prices still to visit, in ascending order. t is declared 0 before the loop
\* and no statement of the loop assigns it.
RECURSIVE OuterLoop(_, _, _, _, _, _)
OuterLoop(todo, dist, t, total, q, oct) ==
    IF todo = {} THEN oct
    ELSE LET price == SetMin(todo)
             r == InnerLoop(t, total, q, price, dist[price], oct)
         IN  IF r[1] > 7 THEN r[2]
             ELSE OuterLoop(todo \ {price}, dist, t, total, r[1], r[2])

\* The if (total > 0) block of update.
UpdateOctiles(dist, total, oct) ==
    IF total > 0
    THEN LET first == [oct EXCEPT ![0] = SetMin(DOMAIN dist)]
             looped == OuterLoop(DOMAIN dist, dist, 0, total, 1, first)
         IN  [looped EXCEPT ![8] = SetMax(DOMAIN dist)]
    ELSE oct

GPInit ==
    /\ gp_chain \in GpChains
    /\ gp_c = 0
    /\ gp_dist = <<>>
    /\ gp_total = 0
    /\ m_octiles = NoOctiles
    /\ gp_pc = "sampling"

GPIdle ==
    /\ gp_chain = <<>>
    /\ gp_c = 0
    /\ gp_dist = <<>>
    /\ gp_total = 0
    /\ m_octiles = NoOctiles
    /\ gp_pc = "off"

\* One turn of while (c < 1000 && p): the block at distance c from the head.
UpdateSample ==
    /\ gp_pc = "sampling"
    /\ gp_c < SampleWindow /\ gp_c < Len(gp_chain)
    /\ LET txs == gp_chain[gp_c + 1]
       IN  /\ gp_dist' = AddBlock(gp_dist, txs)
           /\ gp_total' = gp_total + BlockGas(txs)
    /\ gp_c' = gp_c + 1
    /\ UNCHANGED <<gp_chain, m_octiles, gp_pc>>

\* The loop's exit and the octile computation that follows it.
UpdateFinish ==
    /\ gp_pc = "sampling"
    /\ ~(gp_c < SampleWindow /\ gp_c < Len(gp_chain))
    /\ m_octiles' = UpdateOctiles(gp_dist, gp_total, m_octiles)
    /\ gp_pc' = "done"
    /\ UNCHANGED <<gp_chain, gp_c, gp_dist, gp_total>>

-----------------------------------------------------------------------------
(* Client: blocks, transactions, logs and filters                          *)

\* The threads that run doWork: the Worker's loop and a caller of
\* flushTransactions.
Threads == {"worker", "flush"}

\* Transactions are named by their hashes; the transaction queue hands them
\* out in hash order.
Txs == {1, 2, 3}

\* The log topics of the receipt each transaction produces, in order.
TxLogs == <<  <<1>>, <<1, 2>>, <<1, 1>> >>

\* A block is named by its content: the bodies from the genesis block up to
\* it (so the parent is the block without its last body and the number is the
\* length). A body holds the block's transactions and who made it.
Genesis == <<>>
Body(txs, by) == [txs |-> txs, by |-> by]
Parent(b) == SubSeq(b, 1, Len(b) - 1)
Number(b) == Len(b)
BlockTxs(b) == IF b = Genesis THEN <<>> ELSE b[Len(b)].txs

\* The blocks the peers announce: A1 on the genesis block, and the longer
\* branch X1, X2 that shares transaction 2 with A1.
A1 == <<Body(<<1, 2>>, "a")>>
X1 == <<Body(<<2>>, "x")>>
X2 == <<Body(<<2>>, "x"), Body(<<>>, "x")>>
PeerBlocks == {A1, X1, X2}

SeqRange(q) == {q[i] : i \in 1..Len(q)}

RECURSIVE Concat(_)
Concat(qs) == IF qs = <<>> THEN <<>> ELSE Head(qs) \o Concat(Tail(qs))

\* The transactions of the block and of all its ancestors.
Included(b) == UNION {SeqRange(b[i].txs) : i \in 1..Len(b)}

\* The blocks of the chain that ends in b, the genesis block left out.
ChainOf(b) == {SubSeq(b, 1, n) : n \in 1..Len(b)}

IsPrefix(a, b) == Len(a) <= Len(b) /\ SubSeq(b, 1, Len(a)) = a

\* The blocks of the chain ending in `to` that are not on the chain ending in
\* `from`, oldest first.
RECURSIVE RouteUp(_, _)
RouteUp(from, to) ==
    IF IsPrefix(to, from) THEN <<>>
    ELSE Append(RouteUp(from, Parent(to)), to)

\* ---- log filters (libethereum/LogFilter, modelled from the spec) ---------

PendingChangedFilter == "pending"
ChainChangedFilter == "chain"

\* Filter F1 selects topic 1 in every block and in the pending block; F2
\* selects topic 2 in mined blocks from number 2 on.
Filters ==
    [F1 |-> [topics |-> {1}, earliest |-> 0, pending |-> TRUE],
     F2 |-> [topics |-> {2}, earliest |-> 2, pending |-> FALSE]]

\* LogFilter::envelops(RelativeBlock, number)
Envelops(f, relative, number) ==
    /\ number >= Filters[f].earliest
    /\ relative = "Pending" => Filters[f].pending

\* LogFilter::matches(TransactionReceipt): the logs of the receipt it selects.
MatchesReceipt(f, tx) ==
    SelectSeq(TxLogs[tx], LAMBDA topic : topic \in Filters[f].topics)

\* BlockInfo::logBloom and LogFilter::matches(LogBloom)
LogBloom(b) == UNION {SeqRange(TxLogs[tx]) : tx \in SeqRange(BlockTxs(b))}
MatchesBloom(f, bloom) == Filters[f].topics \cap bloom # {}

LocalisedLogEntry(topic, number, txHash) ==
    [topic |-> topic, number |-> number, txHash |-> txHash]
\* LocalisedLogEntry(SpecialLogEntry, 0)
SpecialEntry == [topic |-> 0, number |-> 0, txHash |-> 0]

Localise(logs, number, txHash) ==
    [i \in 1..Len(logs) |-> LocalisedLogEntry(logs[i], number, txHash)]

\* ---- BlockChain (libethereum/BlockChain, modelled from the spec) ---------

\* BlockChain::import of one block: unknown blocks with a known parent are
\* stored; the head moves when the block's chain outranks it (every block has
\* the same difficulty, so the longer chain has the greater total difficulty).
Importable(bc, b) == b \notin bc.known /\ Parent(b) \in bc.known

ImportBlock(bc, b) ==
    IF ~Importable(bc, b) THEN bc
    ELSE [known |-> bc.known \cup {b},
          head |-> IF Number(b) > Number(bc.head) THEN b ELSE bc.head]

\* attemptImport(block, stateDB) -> (newly canonical blocks, new canonical
\* head); an invalid or known block is swallowed and gives no blocks.
AttemptImport(bc, b) ==
    LET after == ImportBlock(bc, b)
    IN  [bc |-> after,
         hs |-> RouteUp(bc.head, after.head),
         c |-> after.head,
         stored |-> IF Importable(bc, b) THEN {b} ELSE {}]

\* The import of the first n blocks of the queue, in order.
RECURSIVE ImportAll(_, _)
ImportAll(bc, blocks) ==
    IF blocks = <<>> THEN bc
    ELSE ImportAll(ImportBlock(bc, Head(blocks)), Tail(blocks))

Min(a, b) == IF a <= b THEN a ELSE b

\* sync(blockQueue, stateDB, max) -> (fresh, dead, stillGotWork): fresh are
\* the blocks that became canonical, oldest first; dead the blocks that were
\* canonical and no longer are.
BcSync(bc, bq, db, max) ==
    LET n == Min(max, Len(bq))
        taken == SubSeq(bq, 1, n)
        after == ImportAll(bc, taken)
    IN  [bc |-> after,
         bq |-> SubSeq(bq, n + 1, Len(bq)),
         db |-> db \cup (after.known \ bc.known),
         fresh |-> RouteUp(bc.head, after.head),
         dead |-> RouteUp(after.head, bc.head),
         sgw |-> n < Len(bq)]

\* ---- State (libethereum/State, modelled from the spec) -------------------

\* State::sync(BlockChain): rebase on the chain's head; true if it moved.
NoBal == [a \in {"A", "B"} |-> 0]
Accounts == DOMAIN NoBal

\* The transactions of the queue, in hash order.
RECURSIVE SortedTxs(_)
SortedTxs(S) ==
    IF S = {} THEN <<>>
    ELSE LET x == SetMin(S) IN <<x>> \o SortedTxs(S \ {x})

\* State::sync(bc, tq, gp): the queued transactions that are valid against
\* the state and not yet applied, in queue order. A transaction is valid
\* once: not while a block of the state's chain or the pending list holds it.
NewlyPending(post, tq) ==
    SortedTxs({tx \in tq : tx \notin Included(post.head)
                            /\ tx \notin SeqRange(post.pending)})

\* The block a miner seals from the pending state it was set up with
\* (setupState copies m_postMine, commitToMine freezes the header).
SealedBlock(post) == Append(post.head, Body(post.pending, "m"))

-----------------------------------------------------------------------------
(* Client: the operations of Client.cpp                                    *)

LocalMinerIds == {1}
IdleMiner == [status |-> "idle", work |-> Genesis]

\* The locals of a doWork pass, as they are when no pass runs.
NoLocals ==
    [changeds |-> {}, fresh |-> <<>>, dead |-> <<>>, db |-> {},
     resyncStateNeeded |-> FALSE, stillGotWork |-> FALSE,
     newPending |-> <<>>, toUninstall |-> {}, began |-> {}, phases |-> <<>>]

\* Blocks a miner may seal, transactions that may be injected and seconds
\* the clock may reach in one run.
MaxMined == 1
MaxTime == 30
\* Seconds between two readings of the clock.
TickSeconds == 5
\* m_bc.sync(m_bq, db, 100): the most blocks one pass takes from the queue.
MaxSync == 1
\* now() - m_lastGarbageCollection > seconds(5); now() - lastPoll > seconds(20)
GcInterval == 5
WatchTimeout == 20
\* time_point::max(): the lastPoll of a watch that is never reaped.
NeverPolled == -1

\* Not the code: a noteChanged that skips the special watches.
NoteChangedWatchesFiltersOnly(watches, filters, changed) ==
    [w \in DOMAIN watches |->
        IF watches[w].id \in changed /\ watches[w].id \in DOMAIN filters
        THEN [watches[w] EXCEPT !.changes = @ \o filters[watches[w].id]]
        ELSE watches[w]]

\* Not the code: a noteChanged that puts the new changes in front.
NoteChangedWatchesInFront(watches, filters, changed) ==
    [w \in DOMAIN watches |->
        IF watches[w].id \in changed
        THEN IF watches[w].id \in DOMAIN filters
             THEN [watches[w] EXCEPT !.changes = filters[watches[w].id] \o @]
             ELSE [watches[w] EXCEPT !.changes = <<SpecialEntry>> \o @]
        ELSE watches[w]]

\* Client::noteChanged: the changes are accrued into the watches.
NoteChangedWatches(watches, filters, changed) ==
    [w \in DOMAIN watches |->
        IF watches[w].id \in changed
        THEN IF watches[w].id \in DOMAIN filters
             THEN [watches[w] EXCEPT !.changes = @ \o filters[watches[w].id]]
             ELSE [watches[w] EXCEPT !.changes = Append(@, SpecialEntry)]
        ELSE watches[w]]

\* Client::noteChanged: then every filter's accumulator is cleared.
NoteChangedFilters(filters, changed) ==
    [f \in DOMAIN filters |-> <<>>]

\* Not the code: appendFromNewBlock looking at the first receipt only.
BlockEntriesFirstReceipt(f, b) ==
    IF Envelops(f, "Latest", Number(b)) /\ MatchesBloom(f, LogBloom(b))
    THEN Localise(MatchesReceipt(f, BlockTxs(b)[1]), Number(b), BlockTxs(b)[1])
    ELSE <<>>

\* The entries appendFromNewBlock pushes to filter f for block b.
BlockEntries(f, b) ==
    IF Envelops(f, "Latest", Number(b)) /\ MatchesBloom(f, LogBloom(b))
    THEN Concat([j \in 1..Len(BlockTxs(b)) |->
                    Localise(MatchesReceipt(f, BlockTxs(b)[j]), Number(b),
                             BlockTxs(b)[j])])
    ELSE <<>>

\* Client::appendFromNewBlock for the blocks of `blocks`, in order: the new
\* filter table and the ids it adds to io_changed.
RECURSIVE AppendFromNewBlocks(_, _)
AppendFromNewBlocks(filters, blocks) ==
    IF blocks = <<>> THEN [filters |-> filters, changed |-> {}]
    ELSE LET b == Head(blocks)
             one == [f \in DOMAIN filters |-> filters[f] \o BlockEntries(f, b)]
             rest == AppendFromNewBlocks(one, Tail(blocks))
         IN  [filters |-> rest.filters,
              changed |-> {f \in DOMAIN filters : BlockEntries(f, b) # <<>>}
                          \cup rest.changed]

\* The entries appendFromNewPending pushes to filter f for the receipt of
\* transaction tx, called with _transactionHash = txHash while the chain's
\* number is `number`.

PendingEntries(f, tx, txHash, number) ==
    IF Envelops(f, "Pending", number + 1)
    THEN Localise(MatchesReceipt(f, tx), number + 1, txHash)
    ELSE <<>>

\* for (i = 0; i < newPendingReceipts.size(); i++)
\*     appendFromNewPending(newPendingReceipts[i], changeds,
\*                          m_postMine.pending()[i].sha3());
\* over the receipts from index i on (1-based here).
RECURSIVE AppendFromNewPendings(_, _, _, _, _)
AppendFromNewPendings(filters, newTxs, pending, number, i) ==
    IF i > Len(newTxs) THEN [filters |-> filters, changed |-> {}]
    ELSE LET add == [f \in DOMAIN filters |->
                        PendingEntries(f, newTxs[i], pending[i], number)]
             one == [f \in DOMAIN filters |-> filters[f] \o add[f]]
             rest == AppendFromNewPendings(one, newTxs, pending, number, i + 1)
         IN  [filters |-> rest.filters,
              changed |-> {f \in DOMAIN filters : add[f] # <<>>} \cup rest.changed]

\* LocalMiner::noteStateChange: the miner drops its work package.
NoteStateChange(miners) == [i \in DOMAIN miners |-> IdleMiner]

\* maintainMiner(m) of doWork, on the context ctx = [bc, db, filters,
\* changeds, local] it reads and writes.
MaintainMiner(ctx, m) ==
    IF m.status # "complete" THEN ctx
    ELSE LET r == AttemptImport(ctx.bc, m.work)
             notHead == SelectSeq(r.hs, LAMBDA h : h # r.c)
             app == AppendFromNewBlocks(ctx.filters, notHead)
         IN  [bc |-> r.bc,
              db |-> ctx.db \cup r.stored,
              filters |-> IF r.hs # <<>> THEN app.filters ELSE ctx.filters,
              changeds |-> IF r.hs # <<>>
                           THEN ctx.changeds \cup app.changed \cup {ChainChangedFilter}
                           ELSE ctx.changeds,
              local |-> NoteStateChange(ctx.local)]

\* for (auto& m: m_localMiners) maintainMiner(m);
RECURSIVE MaintainLocalMiners(_, _)
MaintainLocalMiners(ctx, todo) ==
    IF todo = {} THEN ctx
    ELSE LET i == SetMin(todo)
         IN  MaintainLocalMiners(MaintainMiner(ctx, ctx.local[i]), todo \ {i})

\* ---- doWork, one thread's pass ------------------------------------------

SetLoc(t, l) == [loc EXCEPT ![t] = l]
Goto(t, where) == [pc EXCEPT ![t] = where]
NoPassRuns == \A t \in Threads : pc[t] = "idle"

\* m.isComplete() for a local miner or the remote miner: maintainMiner ends
\* with noteStateChange for every local miner.
AnyComplete ==
    \/ m_remoteMiner.status = "complete"
    \/ \E i \in DOMAIN m_localMiners : m_localMiners[i].status = "complete"

\* The pass starts (bool stillGotWork = false; h256Set changeds;) and
\* maintains the local miners, then the remote miner.
MaintainMiners(t) ==
    /\ pc[t] = "idle"
    /\ LET ctx0 == [bc |-> m_bc, db |-> m_stateDB, filters |-> m_filters,
                    changeds |-> {}, local |-> m_localMiners]
           ctx1 == MaintainLocalMiners(ctx0, DOMAIN m_localMiners)
           ctx2 == MaintainMiner(ctx1, m_remoteMiner)
       IN  /\ m_bc' = ctx2.bc
           /\ m_stateDB' = ctx2.db
           /\ m_filters' = ctx2.filters
           /\ m_localMiners' = ctx2.local
           /\ loc' = SetLoc(t, [NoLocals EXCEPT !.changeds = ctx2.changeds,
                                                !.began = hist.injected])
    /\ pc' = Goto(t, "clone")
    /\ hist' = [hist EXCEPT
           !.quiet = IF NoPassRuns THEN Min(@ + 1, 2) ELSE 0,
           !.untold = IF AnyComplete THEN {} ELSE @ \ {t}]
    /\ UNCHANGED <<m_bq, m_tq, m_preMine, m_postMine, m_watches, m_remoteMiner,
                   clockVars, host, callst>>

\* Worker::workLoop calls doWork again and again.
WorkLoop == MaintainMiners("worker")

\* Client::flushTransactions: doWork on the caller's thread.
FlushTransactions == MaintainMiners("flush")

\* WriteGuard l(x_stateDB); OverlayDB db = m_stateDB; x_stateDB.unlock();
CloneStateDB(t) ==
    /\ pc[t] = "clone"
    /\ loc' = SetLoc(t, [loc[t] EXCEPT !.db = m_stateDB])
    /\ pc' = Goto(t, "sync")
    /\ UNCHANGED <<chainVars, watchVars, minerVars, clockVars, host, callst, hist>>

\* The transaction queue after the dead blocks' transactions are imported
\* and the fresh blocks' transaction hashes dropped.

Requeue(tq, fresh, dead) ==
    (tq \cup UNION {SeqRange(BlockTxs(b)) : b \in SeqRange(dead)})
        \ UNION {SeqRange(BlockTxs(b)) : b \in SeqRange(fresh)}

\* m_bc.sync(m_bq, db, 100) on the clone, with x_stateDB released.
SyncChain(t) ==
    /\ pc[t] = "sync"
    /\ LET r == BcSync(m_bc, m_bq, loc[t].db, MaxSync)
       IN  /\ m_bc' = r.bc
           /\ m_bq' = r.bq
           /\ loc' = SetLoc(t, [loc[t] EXCEPT
                  !.db = r.db, !.fresh = r.fresh, !.dead = r.dead,
                  !.stillGotWork = @ \/ r.sgw])
    /\ pc' = Goto(t, "requeue")
    /\ hist' = [hist EXCEPT
           !.untold = IF m_bc'.head # m_bc.head THEN @ \cup {t} ELSE @]
    /\ UNCHANGED <<m_tq, m_stateDB, m_preMine, m_postMine, watchVars,
                   minerVars, clockVars, host, callst>>

\* The transactions of the dead blocks go back to the queue, those of the
\* fresh blocks leave it; then appendFromNewBlock for every fresh block.
RequeueTxs(t) ==
    /\ pc[t] = "requeue"
    /\ LET app == AppendFromNewBlocks(m_filters, loc[t].fresh)
       IN  /\ m_tq' = Requeue(m_tq, loc[t].fresh, loc[t].dead)
           /\ m_filters' = app.filters
           /\ loc' = SetLoc(t, [loc[t] EXCEPT
                  !.changeds = IF loc[t].fresh # <<>>
                               THEN @ \cup app.changed \cup {ChainChangedFilter}
                               ELSE @])
    /\ pc' = Goto(t, "resync")
    /\ UNCHANGED <<m_bc, m_bq, m_stateDB, m_preMine, m_postMine, m_watches,
                   minerVars, clockVars, host, callst, hist>>

\* Not the code: a rebase only when the queue's sync found fresh blocks.
PreMineSyncStale(pre, bc, fresh) ==
    IF fresh # <<>> THEN [pre EXCEPT !.head = bc.head] ELSE pre

\* m_preMine.sync(m_bc): the state rebased on the chain's head.
PreMineSync(pre, bc, fresh) == [pre EXCEPT !.head = bc.head]

\* Not the code: the pending state reset in every pass.
RestartsAlways(old, pre, post) == TRUE

\* Not the code: the pending state reset when the head moved only.
RestartsOnNewHead(old, pre, post) == pre.head # old.head

\* m_preMine.sync(m_bc) || m_postMine.address() != m_preMine.address()
Restarts(old, pre, post) ==
    pre.head # old.head \/ post.address # pre.address

\* x_stateDB.lock() up to the end of the guarded block: the state DB handle,
\* preSTATE <== CHAIN, postSTATE <== TQ.
Resync(t) ==
    /\ pc[t] = "resync"
    /\ LET pre == PreMineSync(m_preMine, m_bc, loc[t].fresh)
           moved == Restarts(m_preMine, pre, m_postMine)
           post0 == IF moved
                    THEN [head |-> pre.head, address |-> pre.address,
                          bal |-> pre.bal, pending |-> <<>>]
                    ELSE m_postMine
           new == NewlyPending(post0, m_tq)
           post1 == [post0 EXCEPT !.pending = @ \o new]
           app == AppendFromNewPendings(m_filters, new, post1.pending,
                                        Number(m_bc.head), 1)
       IN  /\ m_stateDB' = IF loc[t].fresh # <<>> THEN loc[t].db ELSE m_stateDB
           /\ m_preMine' = pre
           /\ m_postMine' = post1
           /\ m_filters' = app.filters
           /\ host' = IF new # <<>>
                      THEN [host EXCEPT !.newTransactions = TRUE] ELSE host
           /\ loc' = SetLoc(t, [loc[t] EXCEPT
                  !.newPending = new,
                  !.resyncStateNeeded = moved \/ new # <<>>,
                  !.changeds = @ \cup app.changed
                       \cup (IF moved \/ new # <<>>
                             THEN {PendingChangedFilter} ELSE {})])
           /\ hist' = [hist EXCEPT
                  !.applied = @ \cup SeqRange(new),
                  !.untold = IF moved \/ new # <<>> THEN @ \cup {t} ELSE @]
    /\ pc' = Goto(t, "notify")
    /\ UNCHANGED <<m_bc, m_bq, m_tq, m_watches, minerVars, clockVars, callst>>

\* The watches the scan of the watch table puts on toUninstall.

IdleWatches(watches, clock) ==
    {w \in DOMAIN watches :
        /\ watches[w].lastPoll # NeverPolled
        /\ clock - watches[w].lastPoll > WatchTimeout}

\* noteNewBlocks, noteStateChange of the local miners, noteChanged(changeds);
\* then the pass ends, unless a garbage collection is due: then the watch
\* table is scanned under x_filtersWatches for the watches to uninstall.
Notify(t) ==
    /\ pc[t] = "notify"
    /\ host' = IF loc[t].changeds # {}
               THEN [host EXCEPT !.newBlocks = TRUE] ELSE host
    /\ m_localMiners' = IF loc[t].resyncStateNeeded
                        THEN NoteStateChange(m_localMiners) ELSE m_localMiners
    /\ m_watches' = NoteChangedWatches(m_watches, m_filters, loc[t].changeds)
    /\ m_filters' = NoteChangedFilters(m_filters, loc[t].changeds)
    /\ IF now - m_lastGarbageCollection > GcInterval
       THEN /\ loc' = SetLoc(t, [loc[t] EXCEPT
                   !.toUninstall = IdleWatches(m_watches', now)])
            /\ pc' = Goto(t, "uninstall")
       ELSE /\ loc' = SetLoc(t, NoLocals)
            /\ pc' = Goto(t, "idle")
    /\ hist' = [hist EXCEPT
           !.lastSgw = loc[t].stillGotWork,
           !.untold = IF loc[t].resyncStateNeeded THEN {} ELSE @]
    /\ UNCHANGED <<chainVars, m_remoteMiner, clockVars, callst>>

\* ---- the end of a pass, statement by statement ---------------------------

\* Not the code: the final statements of a pass in the order noteChanged,
\* noteNewBlocks, noteStateChange.
FinalPhasesDispatchFirst == <<"noteChanged", "noteNewBlocks", "noteStateChange">>

\* The final statements of a pass, in program order: `if (!changeds.empty())
\* h->noteNewBlocks();`, `if (resyncStateNeeded) ... m.noteStateChange();`,
\* `noteChanged(changeds);`.
FinalPhases == <<"noteNewBlocks", "noteStateChange", "noteChanged">>

\* The pass of thread t is at the final statement `name`.
AtFinalPhase(t, name) ==
    /\ pc[t] = "notify"
    /\ Len(loc[t].phases) < Len(FinalPhases)
    /\ FinalPhases[Len(loc[t].phases) + 1] = name

PhaseDone(t, name) == loc' = SetLoc(t, [loc[t] EXCEPT !.phases = Append(@, name)])

\* if (!changeds.empty()) if (auto h = m_host.lock()) h->noteNewBlocks();
NoteNewBlocks(t) ==
    /\ AtFinalPhase(t, "noteNewBlocks")
    /\ host' = IF loc[t].changeds # {}
               THEN [host EXCEPT !.newBlocks = TRUE] ELSE host
    /\ PhaseDone(t, "noteNewBlocks")
    /\ UNCHANGED <<chainVars, watchVars, minerVars, clockVars, pc, callst, hist>>

\* if (resyncStateNeeded) { ReadGuard l(x_localMiners); for (auto& m:
\* m_localMiners) m.noteStateChange(); }
NoteStateChanges(t) ==
    /\ AtFinalPhase(t, "noteStateChange")
    /\ m_localMiners' = IF loc[t].resyncStateNeeded
                        THEN NoteStateChange(m_localMiners) ELSE m_localMiners
    /\ PhaseDone(t, "noteStateChange")
    /\ hist' = [hist EXCEPT
           !.untold = IF loc[t].resyncStateNeeded THEN {} ELSE @]
    /\ UNCHANGED <<chainVars, watchVars, m_remoteMiner, clockVars, host, pc,
                   callst>>

\* noteChanged(changeds);
NoteChanged(t) ==
    /\ AtFinalPhase(t, "noteChanged")
    /\ m_watches' = NoteChangedWatches(m_watches, m_filters, loc[t].changeds)
    /\ m_filters' = NoteChangedFilters(m_filters, loc[t].changeds)
    /\ PhaseDone(t, "noteChanged")
    /\ UNCHANGED <<chainVars, minerVars, clockVars, host, pc, callst, hist>>

\* The pass ends, unless a garbage collection is due: then the watch table is
\* scanned for the watches to uninstall.
EndPass(t) ==
    /\ pc[t] = "notify"
    /\ Len(loc[t].phases) = Len(FinalPhases)
    /\ IF now - m_lastGarbageCollection > GcInterval
       THEN /\ loc' = SetLoc(t, [loc[t] EXCEPT
                   !.toUninstall = IdleWatches(m_watches, now)])
            /\ pc' = Goto(t, "uninstall")
       ELSE /\ loc' = SetLoc(t, NoLocals)
            /\ pc' = Goto(t, "idle")
    /\ hist' = [hist EXCEPT !.lastSgw = loc[t].stillGotWork]
    /\ UNCHANGED <<chainVars, watchVars, minerVars, clockVars, host, callst>>

\* ClientBase::uninstallWatch for the watches of `gone` (modelled from the
\* spec): the watches leave the table, and so does a filter no remaining
\* watch refers to.
UninstallWatches(watches, gone) ==
    [w \in DOMAIN watches \ gone |-> watches[w]]

UninstallFilters(filters, watches, gone) ==
    [f \in {g \in DOMAIN filters :
                \E w \in DOMAIN watches \ gone : watches[w].id = g}
        |-> filters[f]]

\* for (auto i: toUninstall) uninstallWatch(i); m_bc.garbageCollect();
\* m_lastGarbageCollection = now();
Uninstall(t) ==
    /\ pc[t] = "uninstall"
    /\ m_watches' = UninstallWatches(m_watches, loc[t].toUninstall)
    /\ m_filters' = UninstallFilters(m_filters, m_watches, loc[t].toUninstall)
    /\ m_lastGarbageCollection' = now
    /\ loc' = SetLoc(t, NoLocals)
    /\ pc' = Goto(t, "idle")
    /\ hist' = [hist EXCEPT !.lastSgw = loc[t].stillGotWork]
    /\ UNCHANGED <<chainVars, minerVars, now, host, callst>>

\* ---- what happens around doWork -----------------------------------------

\* An event from outside the work loop ends a run of undisturbed passes.
Disturbed(h) == [h EXCEPT !.quiet = 0]

\* The P2P host hands a block of a peer to the block queue, parents first.
BlockArrives(b) ==
    /\ b \in PeerBlocks
    /\ b \notin m_bc.known /\ b \notin SeqRange(m_bq)
    /\ Parent(b) \in m_bc.known \cup SeqRange(m_bq)
    /\ m_bq' = Append(m_bq, b)
    /\ hist' = Disturbed(hist)
    /\ UNCHANGED <<m_bc, m_tq, m_stateDB, m_preMine, m_postMine, watchVars,
                   minerVars, clockVars, host, pc, loc, callst>>

\* Client::inject: startWorking(); m_tq.import(_rlp);
Inject(tx) ==
    /\ tx \notin hist.injected
    /\ m_tq' = m_tq \cup {tx}
    /\ hist' = [Disturbed(hist) EXCEPT !.injected = @ \cup {tx}]
    /\ UNCHANGED <<m_bc, m_bq, m_stateDB, m_preMine, m_postMine, watchVars,
                   minerVars, clockVars, host, pc, loc, callst>>

\* Client::setupState, called by the idle local miner i: _s = m_postMine
\* under the read lock, then commitToMine.
SetupState(i) ==
    /\ m_localMiners[i].status = "idle"
    /\ hist.mined < MaxMined
    /\ m_localMiners' = [m_localMiners EXCEPT
           ![i] = [status |-> "working", work |-> SealedBlock(m_postMine)]]
    /\ UNCHANGED <<chainVars, watchVars, m_remoteMiner, clockVars, host, pc,
                   loc, callst, hist>>

\* The local miner i finds the proof of work: isComplete() from now on.
MinerCompletes(i) ==
    /\ m_localMiners[i].status = "working"
    /\ m_localMiners' = [m_localMiners EXCEPT ![i].status = "complete"]
    /\ hist' = [Disturbed(hist) EXCEPT !.mined = @ + 1]
    /\ UNCHANGED <<chainVars, watchVars, m_remoteMiner, clockVars, host, pc,
                   loc, callst>>

\* Client::getWork: m_remoteMiner.update(m_postMine, m_bc)
GetWork ==
    /\ hist.mined < MaxMined
    /\ m_remoteMiner' = [m_remoteMiner EXCEPT !.work = SealedBlock(m_postMine)]
    /\ UNCHANGED <<chainVars, watchVars, m_localMiners, clockVars, host, pc,
                   loc, callst, hist>>

\* Client::submitWork with a proof that verifies against the work hash:
\* m_isComplete = true.
SubmitWork ==
    /\ m_remoteMiner.status # "complete"
    /\ hist.mined < MaxMined
    /\ m_remoteMiner' = [m_remoteMiner EXCEPT !.status = "complete"]
    /\ hist' = [Disturbed(hist) EXCEPT !.mined = @ + 1]
    /\ UNCHANGED <<chainVars, watchVars, m_localMiners, clockVars, host, pc,
                   loc, callst>>

\* Client::setAddress (Client.h): the mining beneficiary of m_preMine.
SetAddress(a) ==
    /\ a # m_preMine.address
    /\ m_preMine' = [m_preMine EXCEPT !.address = a]
    /\ hist' = Disturbed(hist)
    /\ UNCHANGED <<m_bc, m_bq, m_tq, m_stateDB, m_postMine, watchVars,
                   minerVars, clockVars, host, pc, loc, callst>>

\* Client::clearPending, when the pending list is not empty.
ClearPending ==
    /\ m_postMine.pending # <<>>
    /\ m_tq' = {}
    /\ m_postMine' = [head |-> m_preMine.head, address |-> m_preMine.address,
                      bal |-> m_preMine.bal, pending |-> <<>>]
    /\ m_localMiners' = NoteStateChange(m_localMiners)
    /\ m_watches' = NoteChangedWatches(m_watches, m_filters, {PendingChangedFilter})
    /\ m_filters' = NoteChangedFilters(m_filters, {PendingChangedFilter})
    /\ hist' = [Disturbed(hist) EXCEPT !.untold = {}]
    /\ UNCHANGED <<m_bc, m_bq, m_stateDB, m_preMine, m_remoteMiner, clockVars,
                   host, pc, loc, callst>>

\* Client::setForceMining: m_forceMining = _enable; then every local miner
\* is told noteStateChange.
SetForceMining(enable) ==
    /\ m_localMiners' = NoteStateChange(m_localMiners)
    /\ hist' = [Disturbed(hist) EXCEPT !.forced = enable, !.untold = {}]
    /\ UNCHANGED <<chainVars, watchVars, m_remoteMiner, clockVars, host, pc,
                   loc, callst>>

\* ClientBase::checkWatch (modelled from the spec): the accumulated entries
\* are handed out and cleared, lastPoll becomes now.
Poll(w) ==
    /\ w \in DOMAIN m_watches
    /\ m_watches' = [m_watches EXCEPT ![w].changes = <<>>, ![w].lastPoll = now]
    /\ UNCHANGED <<chainVars, m_filters, minerVars, clockVars, host, pc, loc,
                   callst, hist>>

\* Time passes.
Tick ==
    /\ now + TickSeconds <= MaxTime
    /\ now' = now + TickSeconds
    /\ UNCHANGED <<chainVars, watchVars, minerVars, m_lastGarbageCollection,
                   host, pc, loc, callst, hist>>

\* ---- Client::call --------------------------------------------------------

\* Largest balance, value, gas and gas price of the calls of the model.
MaxBalance == 2
MaxValue == 2
MaxGas == 1

NoCall == [pc |-> "idle", temp |-> NoBal, from |-> "A", dest |-> "A",
           value |-> 0, cost |-> 0, ok |-> FALSE]

\* State temp; { ReadGuard l(x_stateDB); temp = m_postMine;
\*               temp.addBalance(_from, _value + _gasPrice * _gas); }
CallCopy(dest, from, value, gas, gasPrice) ==
    /\ callst.pc = "idle"
    /\ callst' = [pc |-> "copied",
                  temp |-> [m_postMine.bal EXCEPT
                               ![from] = @ + value + gasPrice * gas],
                  from |-> from, dest |-> dest, value |-> value,
                  cost |-> gasPrice * gas, ok |-> FALSE]
    /\ UNCHANGED <<chainVars, watchVars, minerVars, clockVars, host, pc, loc, hist>>

\* Executive (modelled from the spec): the transfer of the value and the
\* payment of the gas on the state it was given; a failure leaves the gas
\* paid and throws.
Execute(bal, from, dest, value, cost, fails) ==
    LET paid == [bal EXCEPT ![from] = @ - cost]
    IN  IF fails THEN paid
        ELSE [a \in Accounts |->
                 paid[a] - (IF a = from THEN value ELSE 0)
                         + (IF a = dest THEN value ELSE 0)]

\* Not the code: temp as a reference to m_postMine.
PostMineAfterCallAliased(post, tempBal) == [post EXCEPT !.bal = tempBal]

\* m_postMine after the Executive ran on temp. temp is a State of its own,
\* assigned from m_postMine: what the Executive writes stays in temp.
PostMineAfterCall(post, tempBal) == post

\* Executive e(temp, LastHashes(), 0); e.call(...) / e.go(); inside try,
\* with catch (...) swallowing a failure.
CallExecute(fails) ==
    /\ callst.pc = "copied"
    /\ LET after == Execute(callst.temp, callst.from, callst.dest, callst.value,
                            callst.cost, fails)
       IN  /\ callst' = [callst EXCEPT !.pc = "done", !.temp = after,
                                       !.ok = ~fails]
           /\ m_postMine' = PostMineAfterCall(m_postMine, after)
    /\ UNCHANGED <<m_bc, m_bq, m_tq, m_stateDB, m_preMine, watchVars, minerVars,
                   clockVars, host, pc, loc, hist>>

\* return ret; temp goes out of scope.
CallReturn ==
    /\ callst.pc = "done"
    /\ callst' = NoCall
    /\ UNCHANGED <<chainVars, watchVars, minerVars, clockVars, host, pc, loc, hist>>

\* ---- the state after construction ---------------------------------------

Watch(id) == [id |-> id, changes |-> <<>>, lastPoll |-> 0]

(* Client: the locks. Every operation is the sequence of its lock           *)
(* acquisitions, releases and accesses to the guarded members, in program   *)
(* order; what it computes is left to the actions above.                    *)

LockThreads == {"worker", "flush", "api"}

\* x_stateDB and x_localMiners are shared mutexes (ReadGuard / WriteGuard),
\* x_remoteMiner and x_filtersWatches plain mutexes (Guard).
Locks == {"x_stateDB", "x_localMiners", "x_remoteMiner", "x_filtersWatches"}

Lock(l, mode) == [do |-> "lock", lock |-> l, mode |-> mode, n |-> 0]
Unlock(l) == [do |-> "unlock", lock |-> l, mode |-> "-", n |-> 0]
Read(v) == [do |-> "read", lock |-> v, mode |-> "-", n |-> 0]
Write(v) == [do |-> "write", lock |-> v, mode |-> "-", n |-> 0]
\* A condition of the code: the next n instructions are run or skipped.
Maybe(n) == [do |-> "maybe", lock |-> "-", mode |-> "-", n |-> n]

\* Guard l(x_filtersWatches) ... end of appendFromNewPending,
\* appendFromNewBlock, noteChanged, the GC scan or uninstallWatch.
FiltersWatchesLocks == <<Lock("x_filtersWatches", "W"), Unlock("x_filtersWatches")>>

\* maintainMiner(m) for a miner that isComplete(): attemptImport under the
\* write lock, appendFromNewBlock, noteStateChange of every local miner.
MaintainMinerLocks ==
    <<Lock("x_stateDB", "W"), Write("m_stateDB"), Unlock("x_stateDB")>>
        \o FiltersWatchesLocks
        \o <<Read("m_localMiners")>>

\* Client::doWork
DoWorkLocks ==
    <<Lock("x_localMiners", "R"), Read("m_localMiners"),
      Maybe(Len(MaintainMinerLocks))>>
        \o MaintainMinerLocks
        \o <<Unlock("x_localMiners"),
             Lock("x_remoteMiner", "W"), Maybe(Len(MaintainMinerLocks))>>
        \o MaintainMinerLocks
        \o <<Unlock("x_remoteMiner"),
             Lock("x_stateDB", "W"), Read("m_stateDB"), Unlock("x_stateDB"),
             Maybe(2)>>
        \o FiltersWatchesLocks
        \o <<Lock("x_stateDB", "W"), Write("m_stateDB"), Write("m_preMine"),
             Write("m_postMine"), Maybe(2)>>
        \o FiltersWatchesLocks
        \o <<Unlock("x_stateDB"), Maybe(3),
             Lock("x_localMiners", "R"), Read("m_localMiners"),
             Unlock("x_localMiners")>>
        \o FiltersWatchesLocks
        \o <<Maybe(5)>>
        \o FiltersWatchesLocks
        \o <<Maybe(2)>>
        \o FiltersWatchesLocks

\* Not the code: getWork taking x_stateDB before x_remoteMiner.
GetWorkLocksStateFirst ==
    <<Lock("x_stateDB", "R"), Lock("x_remoteMiner", "W"), Read("m_postMine"),
      Unlock("x_remoteMiner"), Unlock("x_stateDB")>>

\* Client::getWork
GetWorkLocks ==
    <<Lock("x_remoteMiner", "W"), Lock("x_stateDB", "R"), Read("m_postMine"),
      Unlock("x_stateDB"), Unlock("x_remoteMiner")>>

\* Client::submitWork
SubmitWorkLocks == <<Lock("x_remoteMiner", "W"), Unlock("x_remoteMiner")>>

\* Not the code: clearPending signalling the miners inside its first block.
ClearPendingLocksNested(empty) ==
    <<Lock("x_stateDB", "W"), Read("m_postMine"), Write("m_postMine"),
      Lock("x_localMiners", "R"), Read("m_localMiners"),
      Unlock("x_localMiners"), Unlock("x_stateDB")>>
        \o FiltersWatchesLocks

\* Client::clearPending; with an empty pending list it returns from inside
\* the first block.
ClearPendingLocks(empty) ==
    IF empty
    THEN <<Lock("x_stateDB", "W"), Read("m_postMine"), Unlock("x_stateDB")>>
    ELSE <<Lock("x_stateDB", "W"), Read("m_postMine"), Write("m_postMine"),
           Unlock("x_stateDB"),
           Lock("x_localMiners", "R"), Read("m_localMiners"),
           Unlock("x_localMiners")>>
             \o FiltersWatchesLocks

\* Client::setupState and Client::call: _s = m_postMine under the read lock.
SetupStateLocks ==
    <<Lock("x_stateDB", "R"), Read("m_postMine"), Unlock("x_stateDB")>>

CallLocks ==
    <<Lock("x_stateDB", "R"), Read("m_postMine"), Unlock("x_stateDB")>>

\* Client::setForceMining and Client::miningProgress
SetForceMiningLocks ==
    <<Lock("x_localMiners", "R"), Read("m_localMiners"),
      Unlock("x_localMiners")>>

MiningProgressLocks ==
    <<Lock("x_localMiners", "R"), Read("m_localMiners"),
      Unlock("x_localMiners")>>

\* Client::setMiningThreads
SetMiningThreadsLocks ==
    <<Lock("x_localMiners", "W"), Write("m_localMiners"),
      Unlock("x_localMiners")>>

\* Client::killChain, from stopWorking() on: the members are reset, the state
\* DB reopened under the write lock, then doWork and setMiningThreads(0).
KillChainLocks ==
    <<Write("m_localMiners"), Write("m_preMine"), Write("m_postMine"),
      Lock("x_stateDB", "W"), Write("m_stateDB"), Unlock("x_stateDB"),
      Write("m_preMine"), Write("m_postMine")>>
        \o DoWorkLocks
        \o SetMiningThreadsLocks

\* The operations a thread runs: the worker thread runs doWork only, a second
\* thread runs doWork through flushTransactions, a third any other operation.
LockOps(t) ==
    CASE t = "worker" -> {"doWork"}
      [] t = "flush" -> {"flushTransactions"}
      [] OTHER -> {"getWork", "submitWork", "clearPending", "clearPendingEmpty",
                   "setupState", "call", "setForceMining", "miningProgress",
                   "setMiningThreads", "killChain"}

LockProgram(name) ==
    CASE name = "doWork" -> DoWorkLocks
      [] name = "flushTransactions" -> DoWorkLocks
      [] name = "getWork" -> GetWorkLocks
      [] name = "submitWork" -> SubmitWorkLocks
      [] name = "clearPending" -> ClearPendingLocks(FALSE)
      [] name = "clearPendingEmpty" -> ClearPendingLocks(TRUE)
      [] name = "setupState" -> SetupStateLocks
      [] name = "call" -> CallLocks
      [] name = "setForceMining" -> SetForceMiningLocks
      [] name = "miningProgress" -> MiningProgressLocks
      [] name = "setMiningThreads" -> SetMiningThreadsLocks
      [] name = "killChain" -> KillChainLocks
      [] OTHER -> <<>>

LockIdle == [name |-> "idle", at |-> 1]

\* The worker loops for ever; each other thread makes one call and is done.
LockReturned == [name |-> "returned", at |-> 1]

LocksInit ==
    /\ lk_run = [t \in LockThreads |-> LockIdle]
    /\ lk_held = [t \in LockThreads |-> <<>>]

LocksRest == UNCHANGED lockVars

Running(t) == lk_run[t].name \notin {"idle", "returned"}

AtEnd(t) == lk_run[t].at > Len(LockProgram(lk_run[t].name))

\* The instruction thread t is at.
Instr(t) ==
    IF Running(t) /\ ~AtEnd(t)
    THEN LockProgram(lk_run[t].name)[lk_run[t].at]
    ELSE [do |-> "none", lock |-> "-", mode |-> "-", n |-> 0]

Holds(t, l) == \E i \in 1..Len(lk_held[t]) : lk_held[t][i].lock = l

HoldsWrite(t, l) ==
    \E i \in 1..Len(lk_held[t]) : lk_held[t][i] = [lock |-> l, mode |-> "W"]

\* u keeps t from taking l in the given mode: a held lock excludes every
\* writer, a write-held lock everybody. The mutexes are not recursive.
Excludes(u, t, l, mode) ==
    IF mode = "W" THEN Holds(u, l) ELSE HoldsWrite(u, l) \/ (u = t /\ Holds(u, l))

Advance(t, k) == lk_run' = [lk_run EXCEPT ![t].at = @ + k]

\* stopWorking() in killChain returns once the worker is between passes, and
\* the worker starts no pass until startWorking().
LockStart(t) ==
    /\ lk_run[t] = LockIdle
    /\ \E name \in LockOps(t) :
        /\ name = "killChain" => ~Running("worker")
        /\ name = "doWork" => \A u \in LockThreads : lk_run[u].name # "killChain"
        /\ lk_run' = [lk_run EXCEPT ![t] = [name |-> name, at |-> 1]]
    /\ UNCHANGED lk_held

LockAcquire(t) ==
    /\ Instr(t).do = "lock"
    /\ \A u \in LockThreads : ~Excludes(u, t, Instr(t).lock, Instr(t).mode)
    /\ lk_held' = [lk_held EXCEPT
                     ![t] = Append(@, [lock |-> Instr(t).lock, mode |-> Instr(t).mode])]
    /\ Advance(t, 1)

LockRelease(t) ==
    /\ Instr(t).do = "unlock"
    /\ lk_held' = [lk_held EXCEPT
                     ![t] = SelectSeq(@, LAMBDA h : h.lock # Instr(t).lock)]
    /\ Advance(t, 1)

LockAccess(t) ==
    /\ Instr(t).do \in {"read", "write"}
    /\ Advance(t, 1)
    /\ UNCHANGED lk_held

LockBranch(t) ==
    /\ Instr(t).do = "maybe"
    /\ \E taken \in BOOLEAN : Advance(t, IF taken THEN 1 ELSE 1 + Instr(t).n)
    /\ UNCHANGED lk_held

LockFinish(t) ==
    /\ Running(t)
    /\ AtEnd(t)
    /\ lk_run' = [lk_run EXCEPT
                    ![t] = IF t = "worker" THEN LockIdle ELSE LockReturned]
    /\ UNCHANGED lk_held

-----------------------------------------------------------------------------
NoHistory ==
    [injected |-> {}, mined |-> 0, quiet |-> 0, lastSgw |-> FALSE,
     applied |-> {}, untold |-> {}, forced |-> FALSE]

\* Client::Client has run its first doWork on an empty chain; `watches` are
\* the watches installed since, `bal` the balances of the genesis state.
ClientInit(watches, bal) ==
    /\ m_bc = [known |-> {Genesis}, head |-> Genesis]
    /\ m_bq = <<>>
    /\ m_tq = {}
    /\ m_stateDB = {Genesis}
    /\ m_preMine = [head |-> Genesis, address |-> "A", bal |-> bal]
    /\ m_postMine = [head |-> Genesis, address |-> "A", bal |-> bal,
                     pending |-> <<>>]
    /\ m_filters = [f \in {watches[w].id : w \in DOMAIN watches}
                          \cap DOMAIN Filters |-> <<>>]
    /\ m_watches = watches
    /\ m_localMiners = [i \in LocalMinerIds |-> IdleMiner]
    /\ m_remoteMiner = IdleMiner
    /\ m_lastGarbageCollection = 0
    /\ now = 0
    /\ host = [newTransactions |-> FALSE, newBlocks |-> FALSE]
    /\ pc = [t \in Threads |-> "idle"]
    /\ loc = [t \in Threads |-> NoLocals]
    /\ callst = NoCall
    /\ hist = NoHistory
    /\ LocksInit

ClientIdle == ClientInit(<<>>, NoBal)

-----------------------------------------------------------------------------
vars == <<vcVars, gpVars, clientVars>>

\* Each specification runs one part of the program; the other parts rest.
VCRests == UNCHANGED vcVars
GPRests == UNCHANGED gpVars
ClientRests == UNCHANGED clientVars
DataRests == UNCHANGED dataVars

\* ---- the VersionChecker alone -------------------------------------------
VCNext ==
    \/ VersionCheckerCtor /\ GPRests /\ ClientRests
    \/ SetOk /\ GPRests /\ ClientRests
    \/ Restart /\ GPRests /\ ClientRests

InitVC == VCInit /\ GPIdle /\ ClientIdle
SpecVC == InitVC /\ [][VCNext]_vars

\* ---- the BasicGasPricer alone -------------------------------------------
GPNext ==
    \/ UpdateSample /\ VCRests /\ ClientRests
    \/ UpdateFinish /\ VCRests /\ ClientRests

InitGP == GPInit /\ VCIdle /\ ClientIdle
SpecGP == InitGP /\ [][GPNext]_vars

\* ---- the work loop with blocks and miners -------------------------------
ChainWatches == <<Watch("F1"), Watch("F2"), Watch(ChainChangedFilter)>>

ChainNext ==
    \/ WorkLoop /\ VCRests /\ GPRests /\ LocksRest
    \/ FlushTransactions /\ VCRests /\ GPRests /\ LocksRest
    \/ \E t \in Threads : CloneStateDB(t) /\ VCRests /\ GPRests /\ LocksRest
    \/ \E t \in Threads : SyncChain(t) /\ VCRests /\ GPRests /\ LocksRest
    \/ \E t \in Threads : RequeueTxs(t) /\ VCRests /\ GPRests /\ LocksRest
    \/ \E t \in Threads : Resync(t) /\ VCRests /\ GPRests /\ LocksRest
    \/ \E t \in Threads : Notify(t) /\ VCRests /\ GPRests /\ LocksRest
    \/ \E b \in PeerBlocks : BlockArrives(b) /\ VCRests /\ GPRests /\ LocksRest
    \/ \E i \in LocalMinerIds : SetupState(i) /\ VCRests /\ GPRests /\ LocksRest
    \/ \E i \in LocalMinerIds : MinerCompletes(i) /\ VCRests /\ GPRests /\ LocksRest

InitChain == VCIdle /\ GPIdle /\ ClientInit(ChainWatches, NoBal)
SpecChain == InitChain /\ [][ChainNext]_vars

\* ---- the work loop with injected transactions, the head fixed -----------
PendingWatches ==
    <<Watch("F1"), Watch("F1"), Watch("F2"), Watch(PendingChangedFilter)>>

PendingNext ==
    \/ WorkLoop /\ VCRests /\ GPRests /\ LocksRest
    \/ FlushTransactions /\ VCRests /\ GPRests /\ LocksRest
    \/ \E t \in Threads : CloneStateDB(t) /\ VCRests /\ GPRests /\ LocksRest
    \/ \E t \in Threads : SyncChain(t) /\ VCRests /\ GPRests /\ LocksRest
    \/ \E t \in Threads : RequeueTxs(t) /\ VCRests /\ GPRests /\ LocksRest
    \/ \E t \in Threads : Resync(t) /\ VCRests /\ GPRests /\ LocksRest
    \/ \E t \in Threads : Notify(t) /\ VCRests /\ GPRests /\ LocksRest
    \/ \E tx \in Txs : Inject(tx) /\ VCRests /\ GPRests /\ LocksRest
    \/ ClearPending /\ VCRests /\ GPRests /\ LocksRest

InitPending == VCIdle /\ GPIdle /\ ClientInit(PendingWatches, NoBal)
SpecPending == InitPending /\ [][PendingNext]_vars

\* ---- one injected transaction, the threads scheduled fairly -------------
InjectedTx == 3
InjectWatches == <<Watch(PendingChangedFilter), Watch("F1")>>

WorkerStep ==
    /\ \/ WorkLoop
       \/ CloneStateDB("worker")
       \/ SyncChain("worker")
       \/ RequeueTxs("worker")
       \/ Resync("worker")
       \/ Notify("worker")
    /\ VCRests /\ GPRests /\ LocksRest

\* A caller of flushTransactions that is inside doWork goes on to its end.
FlushStep ==
    /\ \/ CloneStateDB("flush")
       \/ SyncChain("flush")
       \/ RequeueTxs("flush")
       \/ Resync("flush")
       \/ Notify("flush")
    /\ VCRests /\ GPRests /\ LocksRest

InjectNext ==
    \/ WorkLoop /\ VCRests /\ GPRests /\ LocksRest
    \/ FlushTransactions /\ VCRests /\ GPRests /\ LocksRest
    \/ \E t \in Threads : CloneStateDB(t) /\ VCRests /\ GPRests /\ LocksRest
    \/ \E t \in Threads : SyncChain(t) /\ VCRests /\ GPRests /\ LocksRest
    \/ \E t \in Threads : RequeueTxs(t) /\ VCRests /\ GPRests /\ LocksRest
    \/ \E t \in Threads : Resync(t) /\ VCRests /\ GPRests /\ LocksRest
    \/ \E t \in Threads : Notify(t) /\ VCRests /\ GPRests /\ LocksRest
    \/ Inject(InjectedTx) /\ VCRests /\ GPRests /\ LocksRest

InitInject == VCIdle /\ GPIdle /\ ClientInit(InjectWatches, NoBal)
SpecInject ==
    InitInject /\ [][InjectNext]_vars /\ WF_vars(WorkerStep) /\ WF_vars(FlushStep)

\* ---- the work loop with the clock and polled watches --------------------
GcWatches ==
    <<Watch("F1"),
      [id |-> ChainChangedFilter, changes |-> <<>>, lastPoll |-> NeverPolled]>>

GcNext ==
    \/ WorkLoop /\ VCRests /\ GPRests /\ LocksRest
    \/ FlushTransactions /\ VCRests /\ GPRests /\ LocksRest
    \/ \E t \in Threads : CloneStateDB(t) /\ VCRests /\ GPRests /\ LocksRest
    \/ \E t \in Threads : SyncChain(t) /\ VCRests /\ GPRests /\ LocksRest
    \/ \E t \in Threads : RequeueTxs(t) /\ VCRests /\ GPRests /\ LocksRest
    \/ \E t \in Threads : Resync(t) /\ VCRests /\ GPRests /\ LocksRest
    \/ \E t \in Threads : Notify(t) /\ VCRests /\ GPRests /\ LocksRest
    \/ \E t \in Threads : Uninstall(t) /\ VCRests /\ GPRests /\ LocksRest
    \/ \E w \in 1..Len(GcWatches) : Poll(w) /\ VCRests /\ GPRests /\ LocksRest
    \/ Tick /\ VCRests /\ GPRests /\ LocksRest

InitGc == VCIdle /\ GPIdle /\ ClientInit(GcWatches, NoBal)
SpecGc == InitGc /\ [][GcNext]_vars

\* ---- Client::call on the states of a client at rest ---------------------
CallNext ==
    \/ \E dest \in Accounts, from \in Accounts, value \in 0..MaxValue,
          gas \in 0..MaxGas, gasPrice \in 0..MaxGasPrice :
            CallCopy(dest, from, value, gas, gasPrice) /\ VCRests /\ GPRests /\ LocksRest
    \/ \E fails \in BOOLEAN : CallExecute(fails) /\ VCRests /\ GPRests /\ LocksRest
    \/ CallReturn /\ VCRests /\ GPRests /\ LocksRest

InitCall ==
    /\ VCIdle /\ GPIdle
    /\ \E bal \in [Accounts -> 0..MaxBalance] : ClientInit(<<>>, bal)
SpecCall == InitCall /\ [][CallNext]_vars

\* ---- the work loop, the end of a pass statement by statement -----------
NotifyWatches == <<Watch("F1"), Watch(PendingChangedFilter)>>

NotifyNext ==
    \/ WorkLoop /\ VCRests /\ GPRests /\ LocksRest
    \/ FlushTransactions /\ VCRests /\ GPRests /\ LocksRest
    \/ \E t \in Threads : CloneStateDB(t) /\ VCRests /\ GPRests /\ LocksRest
    \/ \E t \in Threads : SyncChain(t) /\ VCRests /\ GPRests /\ LocksRest
    \/ \E t \in Threads : RequeueTxs(t) /\ VCRests /\ GPRests /\ LocksRest
    \/ \E t \in Threads : Resync(t) /\ VCRests /\ GPRests /\ LocksRest
    \/ \E t \in Threads : NoteNewBlocks(t) /\ VCRests /\ GPRests /\ LocksRest
    \/ \E t \in Threads : NoteStateChanges(t) /\ VCRests /\ GPRests /\ LocksRest
    \/ \E t \in Threads : NoteChanged(t) /\ VCRests /\ GPRests /\ LocksRest
    \/ \E t \in Threads : EndPass(t) /\ VCRests /\ GPRests /\ LocksRest
    \/ \E tx \in Txs : Inject(tx) /\ VCRests /\ GPRests /\ LocksRest
    \/ \E i \in LocalMinerIds : SetupState(i) /\ VCRests /\ GPRests /\ LocksRest

InitNotify == VCIdle /\ GPIdle /\ ClientInit(NotifyWatches, NoBal)
SpecNotify == InitNotify /\ [][NotifyNext]_vars

\* ---- the work loop and what invalidates the miners' work ----------------
MinersNext ==
    \/ WorkLoop /\ VCRests /\ GPRests /\ LocksRest
    \/ FlushTransactions /\ VCRests /\ GPRests /\ LocksRest
    \/ \E t \in Threads : CloneStateDB(t) /\ VCRests /\ GPRests /\ LocksRest
    \/ \E t \in Threads : SyncChain(t) /\ VCRests /\ GPRests /\ LocksRest
    \/ \E t \in Threads : RequeueTxs(t) /\ VCRests /\ GPRests /\ LocksRest
    \/ \E t \in Threads : Resync(t) /\ VCRests /\ GPRests /\ LocksRest
    \/ \E t \in Threads : Notify(t) /\ VCRests /\ GPRests /\ LocksRest
    \/ BlockArrives(A1) /\ VCRests /\ GPRests /\ LocksRest
    \/ Inject(InjectedTx) /\ VCRests /\ GPRests /\ LocksRest
    \/ \E a \in Accounts : SetAddress(a) /\ VCRests /\ GPRests /\ LocksRest
    \/ ClearPending /\ VCRests /\ GPRests /\ LocksRest
    \/ \E enable \in BOOLEAN : SetForceMining(enable) /\ VCRests /\ GPRests /\ LocksRest
    \/ \E i \in LocalMinerIds : SetupState(i) /\ VCRests /\ GPRests /\ LocksRest

InitMiners == VCIdle /\ GPIdle /\ ClientInit(<<>>, NoBal)
SpecMiners == InitMiners /\ [][MinersNext]_vars

\* ---- the locks of the operations, three threads ------------------------
LocksNext ==
    \/ \E t \in LockThreads : LockStart(t) /\ VCRests /\ GPRests /\ DataRests
    \/ \E t \in LockThreads : LockAcquire(t) /\ VCRests /\ GPRests /\ DataRests
    \/ \E t \in LockThreads : LockRelease(t) /\ VCRests /\ GPRests /\ DataRests
    \/ \E t \in LockThreads : LockAccess(t) /\ VCRests /\ GPRests /\ DataRests
    \/ \E t \in LockThreads : LockBranch(t) /\ VCRests /\ GPRests /\ DataRests
    \/ \E t \in LockThreads : LockFinish(t) /\ VCRests /\ GPRests /\ DataRests

InitLocks == VCIdle /\ GPIdle /\ ClientIdle
SpecLocks == InitLocks /\ [][LocksNext]_vars

\* ---- the same, every thread inside an operation scheduled fairly and no
\* ---- caller passed over for a lock for ever ------------------------------
LockStep(t) ==
    /\ \/ LockAcquire(t)
       \/ LockRelease(t)
       \/ LockAccess(t)
       \/ LockBranch(t)
       \/ LockFinish(t)
    /\ VCRests /\ GPRests /\ DataRests

SpecLocksFair ==
    InitLocks /\ [][LocksNext]_vars /\ WF_vars(LockStep("worker"))
        /\ \A t \in LockThreads \ {"worker"} : SF_vars(LockStep(t))

-----------------------------------------------------------------------------
(* Claims about the VersionChecker and the BasicGasPricer                  *)

\* The status file holds a record [P, m, D]: a list whose first three items
\* are unsigned integers.
IsStatusRecord(f) ==
    /\ f.exists
    /\ Len(f.items) >= 3
    /\ \A i \in 1..3 : f.items[i] >= 0

\* C9: once the VersionChecker is constructed, its action is Trust iff the
\* status file holds a record with P = P', m = m' and D = D'; Verify iff it
\* holds a record with P = P', D = D' and m # m'; and Kill in every other
\* case, an absent or undecodable status file included.
C9_VersionAction ==
    vc_pc = "checked" =>
        LET rec == IsStatusRecord(vc_file)
            P == vc_file.items[1]
            m == vc_file.items[2]
            D == vc_file.items[3]
            trust == rec /\ P = c_protocolVersion /\ m = c_minorProtocolVersion
                         /\ D = c_databaseVersion
            verify == rec /\ P = c_protocolVersion /\ D = c_databaseVersion
                          /\ m # c_minorProtocolVersion
        IN  /\ m_action \in {"Trust", "Verify", "Kill"}
            /\ (m_action = "Trust") <=> trust
            /\ (m_action = "Verify") <=> verify
            /\ (m_action = "Kill") <=> (~trust /\ ~verify)

\* C9's case: a record whose database version alone differs was classified.
C9_Witness ==
    /\ vc_pc = "checked"
    /\ IsStatusRecord(vc_file)
    /\ vc_file.items[1] = c_protocolVersion
    /\ vc_file.items[2] = c_minorProtocolVersion
    /\ vc_file.items[3] # c_databaseVersion
    /\ m_action = "Kill"

\* Gas used at prices up to p, over the sampled window.
CumulativeGas(dist, p) == SetSum(dist, {r \in DOMAIN dist : r <= p})

\* C8: after update over a window with total gas used > 0 the nine octiles
\* ascend, octile 0 is the least and octile 8 the greatest observed price,
\* and octile k (k in 1..7) is the smallest observed price at which the
\* cumulative gas used, prices ascending, reaches k * total / 8.
C8_Octiles ==
    (gp_pc = "done" /\ gp_total > 0) =>
        /\ \A k \in 0..7 : m_octiles[k] <= m_octiles[k + 1]
        /\ m_octiles[0] = SetMin(DOMAIN gp_dist)
        /\ m_octiles[8] = SetMax(DOMAIN gp_dist)
        /\ \A k \in 1..7 :
              m_octiles[k] = SetMin({p \in DOMAIN gp_dist :
                                8 * CumulativeGas(gp_dist, p) >= k * gp_total})

\* The part of C8 that does not depend on how "reaches" is rounded.

-----------------------------------------------------------------------------
(* Claims about the work loop with blocks and miners (SpecChain)           *)

\* A pass of thread t ends with this step.
PassEnds(t) == pc[t] # "idle" /\ pc'[t] = "idle"

\* C1 as stated: whenever a pass of doWork completes, the head m_preMine is
\* synced to is the chain's current head.
C1_EveryPassEnd ==
    [][\A t \in Threads : PassEnds(t) => m_preMine'.head = m_bc'.head]_vars

\* C1, amended: whenever no pass of doWork is in progress, the head
\* m_preMine is synced to is the chain's current head, whatever blocks the
\* miners and the block queue delivered.
C1_PreMineAtHead == NoPassRuns => m_preMine.head = m_bc.head

\* No pass runs, and both a peer's block and a block sealed by the local
\* miner on top of it have become canonical.
C1_Witness ==
    /\ NoPassRuns
    /\ Number(m_bc.head) = 2
    /\ m_bc.head[2].by = "m"
    /\ m_preMine.head = m_bc.head

\* The transactions of the blocks of a route.
TxsOf(blocks) == UNION {SeqRange(BlockTxs(b)) : b \in SeqRange(blocks)}

\* C2: when a pass of doWork whose bulk sync reported (fresh, dead) ends,
\* every transaction of a dead block is in the transaction queue - here only
\* for the transactions that no fresh block includes, which the claim's other
\* half wants absent.
C2_DeadRequeued ==
    [][\A t \in Threads :
          pc[t] = "notify" /\ pc'[t] # "notify"
              => TxsOf(loc[t].dead) \ TxsOf(loc[t].fresh) \subseteq m_tq']_vars

\* Every log of block b as a localised entry, receipt by receipt, and the
\* entries of these that filter f has to accumulate.
AllLogs(b) ==
    Concat([j \in 1..Len(BlockTxs(b)) |->
        [k \in 1..Len(TxLogs[BlockTxs(b)[j]]) |->
            [topic |-> TxLogs[BlockTxs(b)[j]][k], number |-> Number(b),
             txHash |-> BlockTxs(b)[j]]]])

Owed(f, b) ==
    IF Number(b) >= Filters[f].earliest
           /\ Filters[f].topics \cap LogBloom(b) # {}
    THEN SelectSeq(AllLogs(b), LAMBDA e : e.topic \in Filters[f].topics)
    ELSE <<>>

OwedAll(f, blocks) == Concat([i \in 1..Len(blocks) |-> Owed(f, blocks[i])])

C6_SecondPassSilent ==
    [][\A t \in Threads :
          pc[t] = "notify" /\ pc'[t] # "notify" /\ hist.quiet = 2
              => loc[t].changeds = {} /\ m_watches' = m_watches]_vars

\* C6, amended: a pass of doWork that follows another with no event from
\* outside in between, the first having drained the block queue (it reported
\* no work left), adds no filter id to its changed set and appends no entry
\* to any watch.
C6_SecondPassAfterDrain ==
    [][\A t \in Threads :
          pc[t] = "notify" /\ pc'[t] # "notify" /\ hist.quiet = 2
                  /\ ~hist.lastSgw
              => loc[t].changeds = {} /\ m_watches' = m_watches]_vars

\* The second of two undisturbed passes is about to end, after passes that
\* imported blocks and notified the watches.
C6_Witness ==
    /\ hist.quiet = 2 /\ ~hist.lastSgw
    /\ \E t \in Threads : pc[t] = "notify"
    /\ m_bc.head # Genesis
    /\ \E w \in DOMAIN m_watches : m_watches[w].changes # <<>>

-----------------------------------------------------------------------------
(* Claims about pending transactions (SpecPending, SpecInject)             *)

\* The number of logs of the transactions applied so far that filter f
\* selects.
RECURSIVE MatchingLogCount(_, _)
MatchingLogCount(f, txs) ==
    IF txs = {} THEN 0
    ELSE LET tx == SetMin(txs)
         IN  Cardinality({k \in 1..Len(TxLogs[tx]) :
                             TxLogs[tx][k] \in Filters[f].topics})
                 + MatchingLogCount(f, txs \ {tx})

\* C3: once the passes that applied transactions to the pending state have
\* ended, every watch on a filter that envelops the pending block holds
\* exactly one entry per matching log of every applied transaction, each with
\* block number = head number + 1, under any interleaving of the callers of
\* doWork (checked on the runs in which the applied transactions are still
\* pending, that is, clearPending has not removed them).
C3_ExactlyOnePerLog ==
    NoPassRuns /\ hist.applied \subseteq SeqRange(m_postMine.pending) =>
        \A w \in DOMAIN m_watches :
            LET f == m_watches[w].id
                got == m_watches[w].changes
            IN  f \in DOMAIN Filters /\ Filters[f].pending =>
                    /\ Len(got) = MatchingLogCount(f, hist.applied)
                    /\ \A i \in 1..Len(got) :
                           got[i].number = Number(m_bc.head) + 1

\* The watches bound to PendingChanged.
PendingChangedWatches ==
    {w \in DOMAIN m_watches : m_watches[w].id = PendingChangedFilter}

\* The state C10 promises: T pending, one synthetic entry in every watch
\* bound to PendingChanged, the host told of new transactions.
Delivered ==
    /\ InjectedTx \in SeqRange(m_postMine.pending)
    /\ \A w \in PendingChangedWatches : m_watches[w].changes = <<SpecialEntry>>
    /\ host.newTransactions

\* C10 as stated: when a pass of doWork that began after inject(T) completes,
\* the head unchanged, T is in the pending state, every watch bound to
\* PendingChanged holds exactly one synthetic entry and the host has been
\* told of new transactions.
C10_NextPassDelivers ==
    [][\A t \in Threads :
          PassEnds(t) /\ InjectedTx \in loc[t].began => Delivered']_vars

\* C10, amended: when a pass of doWork that began after inject(T) completes,
\* the head unchanged, T is in the pending state, the host has been told of
\* new transactions and no watch bound to PendingChanged holds more than one
\* synthetic entry; and with the threads running, inject(T) leads to the
\* state where each of these watches holds exactly one, for good, without
\* any further call.
C10_DeliversInTheEnd ==
    /\ [][\A t \in Threads :
            PassEnds(t) /\ InjectedTx \in loc[t].began
                => /\ InjectedTx \in SeqRange(m_postMine'.pending)
                   /\ host'.newTransactions
                   /\ \A w \in PendingChangedWatches :
                          m_watches'[w].changes \in {<<>>, <<SpecialEntry>>}]_vars
    /\ (InjectedTx \in m_tq) ~> []Delivered

\* T was injected and no pass runs any more: all of it has been delivered.
C10_Witness ==
    /\ InjectedTx \in hist.injected
    /\ NoPassRuns
    /\ Delivered

-----------------------------------------------------------------------------
(* Claims about the garbage collection of watches (SpecGc)                 *)

\* C7: a watch is removed only when its lastPoll is set and more than 20 s
\* have passed since, also when a poll of the watch comes between the scan
\* of the watch table and the uninstall calls.
C7_OnlyIdleWatchesRemoved ==
    [][\A w \in DOMAIN m_watches \ DOMAIN m_watches' :
          /\ m_watches[w].lastPoll # NeverPolled
          /\ now - m_watches[w].lastPoll > WatchTimeout]_vars

-----------------------------------------------------------------------------
(* Claims about Client::call (SpecCall)                                    *)

\* C5: no step of call changes m_preMine or m_postMine, whatever the
\* arguments and whether the execution succeeds or fails: the credit of
\* value + gas * gasPrice and the execution's effects stay in the copy.
C5_CallFrame ==
    [][callst' # callst
          => m_preMine' = m_preMine /\ m_postMine' = m_postMine]_vars

\* A call has succeeded from an account that could not have paid without
\* the credit; the copy differs from the pending state.
C5_Witness ==
    /\ callst.pc = "done" /\ callst.ok
    /\ callst.value > 0 /\ callst.from # callst.dest
    /\ m_postMine.bal[callst.from] < callst.value + callst.cost
    /\ callst.temp # m_postMine.bal

-----------------------------------------------------------------------------
(* Claims about the locks                                                   *)

\* The ranks of the locks in the order the description states, and in the
\* order the operations of Client.cpp take them.
StatedRank(l) ==
    CASE l = "x_stateDB" -> 1
      [] l = "x_filtersWatches" -> 3
      [] OTHER -> 2

TakenRank(l) ==
    CASE l = "x_stateDB" -> 2
      [] l = "x_filtersWatches" -> 3
      [] OTHER -> 1

C16_LockDiscipline ==
    \A t \in LockThreads :
        /\ Instr(t).do = "write"
             /\ Instr(t).lock \in {"m_preMine", "m_postMine", "m_stateDB"}
           => HoldsWrite(t, "x_stateDB")
        /\ Instr(t).do \in {"read", "write"} /\ Instr(t).lock = "m_localMiners"
           => Holds(t, "x_localMiners")

\* t waits for a lock that u holds.
WaitsFor(t, u) ==
    /\ u # t
    /\ Instr(t).do = "lock"
    /\ Excludes(u, t, Instr(t).lock, Instr(t).mode)

C20_NoWaitCycle ==
    \A S \in SUBSET LockThreads :
        S # {} => \E t \in S : \A u \in S : ~WaitsFor(t, u)

-----------------------------------------------------------------------------
(* Claims about the entries of a pass                                       *)

\* The entries filter f is owed for the transactions `new` applied to the
\* pending state while the chain's number is `number`, each entry carrying the
\* hash of the transaction whose receipt holds the log.
OwnHashEntries(f, new, number) ==
    Concat([i \in 1..Len(new) |-> PendingEntries(f, new[i], new[i], number)])

\* C14: in the step that applies the transaction queue to the pending state,
\* every installed filter is appended, for each new receipt, the matching logs
\* with the hash of the transaction that produced the receipt, however many
\* transactions the pending list held before.
C14_HashOfOwnTransaction ==
    [][\A t \in Threads :
          pc[t] = "resync" /\ pc'[t] = "notify"
          => \A f \in DOMAIN m_filters :
                m_filters'[f] = m_filters[f]
                    \o OwnHashEntries(f, loc'[t].newPending, Number(m_bc.head))]_vars

\* C18: the entries accumulated in an installed filter are not discarded
\* before they are appended to the watches bound to the filter: a step that
\* empties the accumulator of a filter appends what it held to every watch of
\* that filter, whoever issues the noteChanged.
C18_ClearedOnlyWhenDelivered ==
    [][\A f \in DOMAIN m_filters \cap DOMAIN m_filters' :
          m_filters[f] # <<>> /\ m_filters'[f] = <<>>
          => \A w \in DOMAIN m_watches \cap DOMAIN m_watches' :
                m_watches[w].id = f
                => m_watches'[w].changes = m_watches[w].changes \o m_filters[f]]_vars

\* C19: what another thread wrote to the state DB handle while a pass had
\* released stateDB around the chain sync is still in the handle after the
\* pass takes the lock again and assigns its clone back.
C19_HandleKeepsUpdates ==
    [][\A t \in Threads :
          pc[t] = "resync" /\ pc'[t] = "notify" => m_stateDB \subseteq m_stateDB']_vars

\* C15: the dead blocks' transactions are imported before the fresh blocks'
\* transaction hashes are dropped, so when a pass that saw a reorg ends, a
\* transaction in both a dead and a fresh block is not in the transaction
\* queue and a transaction in dead blocks only is.
C15_ReorgRequeue ==
    [][\A t \in Threads :
          pc[t] = "notify" /\ pc'[t] # "notify" /\ loc[t].dead # <<>>
          => /\ TxsOf(loc[t].dead) \cap TxsOf(loc[t].fresh) \cap m_tq' = {}
             /\ \A tx \in TxsOf(loc[t].dead) :
                    tx \notin TxsOf(loc[t].fresh) => tx \in m_tq']_vars

\* The phases of a pass in which entries are accumulated: the drain of the
\* completed miners, the fresh blocks of the queue's sync, the newly applied
\* pending transactions.
AppendPhase(where) ==
    CASE where = "idle" -> 1
      [] where = "requeue" -> 2
      [] where = "resync" -> 3
      [] OTHER -> 0

\* A step of thread t that goes on with its pass.
SamePass(t) == pc'[t] # pc[t] /\ pc[t] # "idle" /\ pc'[t] # "idle"

Done(t, name) == name \in SeqRange(loc[t].phases)

\* C13 as stated: the final statements of a pass run in the order noteChanged
\* (the changed filters are dispatched to the watches), then the host is
\* signalled that new blocks exist, then the local miners are told
\* noteStateChange.
C13_DispatchFirst ==
    \A t \in Threads :
        /\ Done(t, "noteNewBlocks") => Done(t, "noteChanged")
        /\ Done(t, "noteStateChange") => Done(t, "noteNewBlocks")

\* C13, amended: the host is signalled first (if any filter changed), then
\* the local miners are told noteStateChange (if the pending state changed),
\* and the changed filters are dispatched to the watches last: when
\* noteChanged runs, the host has its signal.
C13_DispatchLast ==
    \A t \in Threads :
        /\ Done(t, "noteChanged") => Done(t, "noteStateChange")
        /\ Done(t, "noteStateChange") => Done(t, "noteNewBlocks")
        /\ AtFinalPhase(t, "noteChanged") /\ loc[t].changeds # {} => host.newBlocks

\* A pass that applied a transaction has signalled the host and reset the
\* working miner, and still holds the entry its watches have not received.
C13_Witness ==
    \E t \in Threads :
        /\ AtFinalPhase(t, "noteChanged")
        /\ loc[t].newPending # <<>>
        /\ loc[t].phases = <<"noteNewBlocks", "noteStateChange">>
        /\ host.newBlocks
        /\ m_filters["F1"] # <<>>
        /\ \A w \in DOMAIN m_watches : m_watches[w].changes = <<>>

-----------------------------------------------------------------------------
(* Claims about the signals to the miners (SpecMiners)                      *)

AllTold == \A i \in DOMAIN m_localMiners : m_localMiners[i] = IdleMiner

\* The steps of setForceMining and of clearPending on a non-empty list.
ForceMiningStep == hist'.forced # hist.forced
ClearPendingStep ==
    m_postMine.pending # <<>> /\ m_postMine'.pending = <<>> /\ pc' = pc

\* C17 as stated: when a pass ends in which the canonical head changed, the
\* beneficiary changed or a pending transaction was applied, every local
\* miner has been told noteStateChange since; and setForceMining and
\* clearPending (of a non-empty pending list) tell every local miner.
C17_ToldByPassEnd ==
    [][/\ \A t \in Threads : PassEnds(t) => t \notin hist'.untold
       /\ ForceMiningStep \/ ClearPendingStep => AllTold']_vars

\* The pass of thread u has found the pending state reset or extended and
\* has not yet reached its noteStateChange.
Owes(u) == pc[u] = "notify" /\ loc[u].resyncStateNeeded

\* C17, amended: the pass whose resynchronisation finds the head or the
\* beneficiary of PreMineState changed, or applies a pending transaction,
\* tells every local miner noteStateChange before it ends, and such a pass
\* is in progress or still to come (PreMineState is behind the chain) as
\* long as a change has not been followed by the signal; the pass whose
\* chain sync moved the head may end before the signal when another pass
\* resynchronised first. setForceMining and clearPending tell every miner.
C17_ToldByResyncingPass ==
    /\ [](hist.untold # {}
            => \/ \E u \in Threads : Owes(u)
               \/ m_preMine.head # m_bc.head)
    /\ [][/\ \A t \in Threads :
               PassEnds(t) /\ loc[t].resyncStateNeeded
                   => AllTold' /\ hist'.untold = {}
          /\ \A t \in Threads :
               pc[t] = "resync" /\ pc'[t] = "notify"
                   => (loc'[t].resyncStateNeeded
                         <=> \/ m_preMine'.head # m_preMine.head
                             \/ m_postMine.address # m_preMine.address
                             \/ loc'[t].newPending # <<>>)
          /\ ForceMiningStep \/ ClearPendingStep => AllTold']_vars

\* A miner works on a package of the old head; the pass that resynchronised
\* after the block arrived is about to tell it, the pass that imported the
\* block has ended already.
C17_Witness ==
    /\ m_bc.head = A1
    /\ m_preMine.head = A1
    /\ \E i \in DOMAIN m_localMiners :
           /\ m_localMiners[i].status = "working"
           /\ Parent(m_localMiners[i].work) = Genesis
    /\ \E u \in Threads : Owes(u) /\ \A t \in Threads \ {u} : pc[t] = "idle"
    /\ hist.untold = Threads

====
